---- MODULE Spec2Model ----
(***************************************************************************)
(* Model of the inference gateway of app.py: get_supported_models (model   *)
(* discovery), call_gemini (ordered fallback over the candidate models)    *)
(* and the three route handlers that call it (scan_food, diet_plan, chat), *)
(* including their extraction of a JSON object from the model's reply.     *)
(*                                                                         *)
(* Strings that the code inspects (model names, reply texts) are sequences *)
(* of one-character strings or of lexemes; messages that the code builds   *)
(* with f-strings are records that wrap the embedded value.                *)
(***************************************************************************)
EXTENDS Integers, Sequences, FiniteSets, TLC

VARIABLES
  pc,             \* where the request is
  site,           \* the route that serves it
  listing,        \* get_supported_models: the response r of the listing call
  models_to_try,  \* call_gemini: the candidate list
  idx,            \* call_gemini: the position of the loop in models_to_try
  last_error,     \* call_gemini: last_error
  attempted,      \* the models called so far, in call order
  inflight,       \* the positions whose call has been sent and has not ended
  lastResp,       \* the response of the last call that ended
  abortAt,        \* the first position answered with 400 or 403, 0 for none
  parsedAt,       \* the first position answered 200 with a decodable body
  outcome,        \* what call_gemini returned or raised
  reply,          \* the handler: the reply text read from the body
  response,       \* what the handler returned
  prevFailed      \* call_gemini has failed in an earlier request

vars == <<pc, site, listing, models_to_try, idx, last_error, attempted,
          inflight, lastResp, abortAt, parsedAt, outcome, reply, response,
          prevFailed>>

----------------------------------------------------------------------------
(* Bounds *)

\* longest `models` array of a listing response
MaxListing == 3

\* longest reply text, in lexemes
MaxText == 3

----------------------------------------------------------------------------
(* Strings as sequences of characters *)

Lower(s) ==
  [i \in 1..Len(s) |->
     CASE s[i] = "T" -> "t"
       [] s[i] = "S" -> "s"
       [] s[i] = "A" -> "a"
       [] s[i] = "Q" -> "q"
       [] s[i] = "E" -> "e"
       [] OTHER -> s[i]]

\* Python's `sub in s`
Contains(s, sub) ==
  \E i \in 1..(Len(s) - Len(sub) + 1) : SubSeq(s, i, i + Len(sub) - 1) = sub

\* Python's s.split('/')[-1]: what follows the last "/", all of s without one
LastSegment(s) ==
  LET slashes == {i \in 1..Len(s) : s[i] = "/"}
  IN  IF slashes = {} THEN s
      ELSE LET last == CHOOSE i \in slashes : \A j \in slashes : j <= i
           IN  SubSeq(s, last + 1, Len(s))

tts == <<"t", "t", "s">>
embed == <<"e", "m", "b", "e", "d">>
aqa == <<"a", "q", "a">>

----------------------------------------------------------------------------
(* The static fallback list *)

g15flash == <<"1", "5", "f">>
g15pro == <<"1", "5", "p">>
g20flash == <<"2", "0", "f">>
g15flashLatest == <<"1", "5", "f", "l">>
g15proLatest == <<"1", "5", "p", "l">>
g10pro == <<"1", "0", "p">>

AVAILABLE_MODELS ==
  <<g15flash, g15pro, g20flash, g15flashLatest, g15proLatest, g10pro>>

----------------------------------------------------------------------------
(* The listing call and get_supported_models *)

\* provider-qualified names a listing can carry
ProviderNames ==
  { <<"m", "/", "g", "1">>,
    <<"m", "/", "g", "2">>,
    <<"m", "/", "T", "T", "S">>,
    <<"m", "/", "e", "m", "b", "e", "d">>,
    <<"m", "/", "A", "q", "a">>,
    <<"t", "t", "s", "/", "g", "3">>,
    <<"g", "4">> }

GenMethods == {"generateContent", "countTokens"}
OtherMethods == {"embedContent"}

\* One element of the `models` array.  methods = {} also stands for an entry
\* without a supportedGenerationMethods key (m.get(..., []) reads it as []).
Entry(hasName, name, methods) ==
  [hasName |-> hasName, name |-> name, methods |-> methods]

ListingEntries ==
  {Entry(TRUE, n, GenMethods) : n \in ProviderNames}
    \cup {Entry(TRUE, <<"m", "/", "g", "1">>, OtherMethods),
          Entry(TRUE, <<"m", "/", "e", "m", "b", "e", "d">>, OtherMethods),
          Entry(TRUE, <<"m", "/", "g", "2">>, {}),
          Entry(FALSE, <<>>, GenMethods),
          Entry(FALSE, <<>>, OtherMethods)}

RECURSIVE SeqsUpTo(_, _)
SeqsUpTo(S, n) ==
  IF n = 0 THEN {<<>>}
  ELSE LET shorter == SeqsUpTo(S, n - 1)
       IN  shorter \cup {Append(q, x) : q \in {r \in shorter : Len(r) = n - 1}, x \in S}

\* The response of requests.get(url, timeout=5): the call raises (k is the
\* exception), or answers with a status and a body.  body: "notjson" (r.json()
\* raises), "nonobject" (JSON that is no object), "nomodels" (an object
\* without `models`), "models" (an object whose `models` is the array models).
ListingResp(k, status, body, models) ==
  [k |-> k, status |-> status, body |-> body, models |-> models]

NoListing == ListingResp("none", 0, "none", <<>>)

ListingStatuses == {200, 403, 500}

ListingResponses ==
  {ListingResp(k, 0, "none", <<>>) : k \in {"timeout", "connerr"}}
    \cup {ListingResp("http", s, "notjson", <<>>) : s \in ListingStatuses}
    \cup {ListingResp("http", s, b, <<>>) :
            s \in ListingStatuses, b \in {"nonobject", "nomodels"}}
    \cup {ListingResp("http", s, "models", ms) :
            s \in ListingStatuses, ms \in SeqsUpTo(ListingEntries, MaxListing)}

\* the condition of the list comprehension
\* (variant: the name is tested without lower())
Keep_CaseSensitive(m) ==
  /\ "generateContent" \in m.methods
  /\ ~Contains(m.name, tts)
  /\ ~Contains(m.name, embed)
  /\ ~Contains(m.name, aqa)

Keep(m) ==
  /\ "generateContent" \in m.methods
  /\ ~Contains(Lower(m.name), tts)
  /\ ~Contains(Lower(m.name), embed)
  /\ ~Contains(Lower(m.name), aqa)

\* m['name'] raises KeyError: it is read only once 'generateContent' was found
RaisesKeyError(m) == "generateContent" \in m.methods /\ ~m.hasName

RECURSIVE Comprehension(_)
Comprehension(all_models) ==
  IF all_models = <<>> THEN <<>>
  ELSE LET m == Head(all_models)
           rest == Comprehension(Tail(all_models))
       IN  IF Keep(m) THEN <<LastSegment(m.name)>> \o rest ELSE rest

\* what `models` is at the return of the status-200 branch
Discovered(r) ==
  Comprehension(IF r.body = "models" THEN r.models ELSE <<>>)

\* the try block raises
DiscoveryRaises(r) ==
  \/ r.k # "http"
  \/ /\ r.status = 200
     /\ \/ r.body \in {"notjson", "nonobject"}
        \/ /\ r.body = "models"
           /\ \E i \in 1..Len(r.models) : RaisesKeyError(r.models[i])

get_supported_models(r) ==
  IF DiscoveryRaises(r) THEN AVAILABLE_MODELS
  ELSE IF r.status = 200 THEN Discovered(r)
  ELSE AVAILABLE_MODELS

----------------------------------------------------------------------------
(* The inference call *)

\* The response of requests.post(url, json=payload, timeout=timeout): the
\* call raises (k is the exception), or answers with a status, a content-type
\* header (ctype = "application/json" or anything else, "other") and a body
\* that r.json() can decode (jsonok) or not.  A decodable 200 body is one of
\* SuccessBodies: without `candidates`, with an empty `candidates`, with a
\* first candidate that has no content/parts/text, or with a reply text.
InferenceResp(k, status, ctype, jsonok, body) ==
  [k |-> k, status |-> status, ctype |-> ctype, jsonok |-> jsonok, body |-> body]

SuccessBodies == {"nocandidates", "emptycandidates", "notext", "text"}

ErrorStatuses == {400, 403, 500}

InferenceResponses ==
  {InferenceResp(k, 0, "none", FALSE, "none") : k \in {"timeout", "connerr"}}
    \cup {InferenceResp("http", 200, "application/json", TRUE, b) : b \in SuccessBodies}
    \cup {InferenceResp("http", 200, "application/json", FALSE, "none")}
    \cup {InferenceResp("http", s, "application/json", ok, "none") :
            s \in ErrorStatuses, ok \in BOOLEAN}
    \cup {InferenceResp("http", s, "other", FALSE, "none") : s \in ErrorStatuses}

\* last_error: its initial text, f"API {status} ({model}): {error_data}", or
\* str(e) of the exception caught
LastError(k, status, model, data) ==
  [k |-> k, status |-> status, model |-> model, data |-> data]

NoError == LastError("none", 0, <<>>, "")
InitialError == LastError("text", 0, <<>>, "No models attempted")

\* error_data: r.json() or r.text
ApiError(model, r) ==
  LastError("api", r.status, model,
            IF r.ctype = "application/json" THEN "r.json()" ELSE "r.text")

\* (variant: the except clause does not record str(e))
ExceptionError_Unrecorded(text) == LastError("text", 0, <<>>, "No models attempted")

ExceptionError(text) == LastError("exc", 0, <<>>, text)

\* r.json() raises on the body
JsonRaises(r) == ~r.jsonok

\* the try block of one loop iteration raises, with this str(e)
AttemptRaises(r) ==
  \/ r.k # "http"
  \/ r.status = 200 /\ JsonRaises(r)
  \/ r.status # 200 /\ r.ctype = "application/json" /\ JsonRaises(r)

AttemptException(r) ==
  IF r.k = "timeout" THEN "ReadTimeout"
  ELSE IF r.k = "connerr" THEN "ConnectionError"
  ELSE "JSONDecodeError"

\* status codes after which the loop is left
AbortStatuses == {400, 403}

\* what call_gemini hands to its caller: the decoded body of the model
\* number `from`, or Exception(f"All AI attempts failed. Final error: {last_error}")
Outcome(k, body, from, head, final) ==
  [k |-> k, body |-> body, from |-> from, head |-> head, final |-> final]

NoResp == InferenceResp("none", 0, "none", FALSE, "none")

NoOutcome == Outcome("none", "none", 0, "", NoError)
Success(body, from) == Outcome("success", body, from, "", NoError)
Failure(err) ==
  Outcome("failure", "none", 0, "All AI attempts failed. Final error: ", err)

----------------------------------------------------------------------------
(* The reply text and the extraction of its JSON object *)

\* A reply text is a sequence of lexemes: "{" and "}", "p" (one member,
\* "name": value), "x" (prose), "s" (a whitespace character), "f" (the fence
\* ```), "F" (the fence ```json).  "j" is the word json left of a split "F".
Lexemes == {"{", "}", "p", "x", "s", "f", "F"}

Texts == SeqsUpTo(Lexemes, MaxText)

\* the index of the first lexeme at or after i that is no whitespace
RECURSIVE SkipSpace(_, _)
SkipSpace(t, i) ==
  IF i <= Len(t) /\ t[i] = "s" THEN SkipSpace(t, i + 1) ELSE i

\* re.sub(r'```json\s*|\s*```', '', text), scanning from lexeme i
RECURSIVE SubFrom(_, _)
SubFrom(t, i) ==
  IF i > Len(t) THEN <<>>
  ELSE IF t[i] = "F" THEN SubFrom(t, SkipSpace(t, i + 1))
  ELSE IF t[i] = "f" THEN SubFrom(t, i + 1)
  ELSE IF t[i] = "s"
    THEN LET j == SkipSpace(t, i)
         IN  IF j <= Len(t) /\ t[j] = "f" THEN SubFrom(t, j + 1)
             ELSE IF j <= Len(t) /\ t[j] = "F" THEN <<"j">> \o SubFrom(t, j + 1)
             ELSE <<t[i]>> \o SubFrom(t, i + 1)
  ELSE <<t[i]>> \o SubFrom(t, i + 1)

\* str.strip()
RECURSIVE Strip(_)
Strip(t) ==
  IF t = <<>> THEN t
  ELSE IF Head(t) = "s" THEN Strip(Tail(t))
  ELSE IF t[Len(t)] = "s" THEN Strip(SubSeq(t, 1, Len(t) - 1))
  ELSE t

clean_text(text) == Strip(SubFrom(text, 1))

\* re.search(r"\{.*\}", clean_text, re.DOTALL): from the first "{" to the
\* last "}" after it
Opens(t) == {i \in 1..Len(t) : t[i] = "{"}
FirstOpen(t) == CHOOSE i \in Opens(t) : \A j \in Opens(t) : i <= j
Closes(t) == {i \in 1..Len(t) : t[i] = "}" /\ i > FirstOpen(t)}
LastClose(t) == CHOOSE i \in Closes(t) : \A j \in Closes(t) : j <= i

HasMatch(t) == Opens(t) # {} /\ Closes(t) # {}
MatchGroup(t) == SubSeq(t, FirstOpen(t), LastClose(t))

\* json.loads(span): an object with no member or with one, whitespace
\* allowed between the lexemes; anything else raises JSONDecodeError
NoSpace(t) == SelectSeq(t, LAMBDA c : c # "s")
JsonLoadsOk(span) == NoSpace(span) \in {<<"{", "}">>, <<"{", "p", "}">>}
JsonLoads(span) == SubSeq(NoSpace(span), 2, Len(NoSpace(span)) - 1)

----------------------------------------------------------------------------
(* The route handlers *)

Sites == {"scan_food", "diet_plan", "chat"}

\* What a handler returns: the HTTP status and the JSON object.  error is the
\* fixed text of the "error" member ("" without one), cause the str(e) put
\* behind it by an f-string, raw the "raw" member when hasRaw, value the
\* parsed object or the reply returned with status 200.
Response(status, error, cause, hasRaw, raw, value) ==
  [status |-> status, error |-> error, cause |-> cause,
   hasRaw |-> hasRaw, raw |-> raw, value |-> value]

NoResponse == Response(0, "", NoOutcome, FALSE, <<>>, <<>>)

\* str(e) of an exception raised inside the handler itself
Raised(name) == Outcome("raised", "none", 0, name, NoError)

Ok(value) == Response(200, "", NoOutcome, FALSE, <<>>, value)
\* (variant: the status is left out of the return, which answers 200)
Error_Status200(text) == Response(200, text, NoOutcome, FALSE, <<>>, <<>>)

Error(text) == Response(500, text, NoOutcome, FALSE, <<>>, <<>>)
ErrorWith(text, e) == Response(500, text, e, FALSE, <<>>, <<>>)
ErrorRaw(text, raw) == Response(500, text, NoOutcome, TRUE, raw, <<>>)

\* the body has no usable `candidates`
NoCandidates(data) == data.body \in {"nocandidates", "emptycandidates"}

\* the except clauses of the three handlers
scan_food_except(e) == ErrorWith("Server Error: ", e)
diet_plan_except(e) == ErrorWith("AI Plan failed: ", e)
\* (variant: the error text without str(e))
chat_except_NoText(e) == Error("Bella Error: ")

chat_except(e) == ErrorWith("Bella Error: ", e)

scan_food_response(data, text) ==
  IF data.k = "failure" THEN scan_food_except(data)
  ELSE IF NoCandidates(data)
    THEN Error("No results from AI. Safety filters might be active.")
  ELSE IF data.body = "notext" THEN scan_food_except(Raised("KeyError"))
  ELSE IF HasMatch(clean_text(text))
    THEN IF JsonLoadsOk(MatchGroup(clean_text(text)))
           THEN Ok(JsonLoads(MatchGroup(clean_text(text))))
           ELSE ErrorRaw("AI returned invalid JSON structure", text)
  ELSE ErrorRaw("AI response did not contain JSON", text)

diet_plan_response(res_data, text) ==
  IF res_data.k = "failure" THEN diet_plan_except(res_data)
  ELSE IF NoCandidates(res_data) THEN Error("AI could not generate a plan.")
  ELSE IF res_data.body = "notext"
    THEN diet_plan_except(Raised("KeyError"))
  ELSE IF HasMatch(clean_text(text))
    THEN IF JsonLoadsOk(MatchGroup(clean_text(text)))
           THEN Ok(JsonLoads(MatchGroup(clean_text(text))))
           ELSE diet_plan_except(Raised("JSONDecodeError"))
  ELSE ErrorRaw("AI response did not contain JSON", text)

chat_response(res_data, text) ==
  IF res_data.k = "failure" THEN chat_except(res_data)
  ELSE IF NoCandidates(res_data) THEN Error("Bella is unable to respond right now.")
  ELSE IF res_data.body = "notext" THEN chat_except(Raised("KeyError"))
  ELSE Ok(text)

\* the reply texts a body can carry: one text only where none is read
RepliesOf(data) ==
  IF data.k = "success" /\ data.body = "text" THEN Texts ELSE {<<>>}

----------------------------------------------------------------------------
(* The state machine *)

TypeOK ==
  /\ pc \in {"idle", "discover", "discovered", "loop", "inflight", "raise",
             "returned", "handling", "responded"}
  /\ site \in Sites \cup {"none"}
  /\ prevFailed \in BOOLEAN
  /\ idx \in 0..(Len(models_to_try) + 1)
  /\ inflight \subseteq 1..Len(models_to_try)

Init ==
  /\ pc = "idle"
  /\ site = "none"
  /\ listing = NoListing
  /\ models_to_try = <<>>
  /\ idx = 0
  /\ last_error = NoError
  /\ attempted = <<>>
  /\ inflight = {}
  /\ lastResp = NoResp
  /\ abortAt = 0
  /\ parsedAt = 0
  /\ outcome = NoOutcome
  /\ reply = <<>>
  /\ response = NoResponse
  /\ prevFailed = FALSE

\* a request arrives at one of the three routes; the handler builds its
\* payload, calls call_gemini, which calls get_supported_models, which
\* sends the listing request
StartRequest ==
  /\ pc = "idle"
  /\ \E s \in Sites : site' = s
  /\ pc' = "discover"
  /\ response' = NoResponse
  /\ reply' = <<>>
  /\ outcome' = NoOutcome
  /\ UNCHANGED <<listing, models_to_try, idx, last_error, attempted, inflight,
                 lastResp, abortAt, parsedAt, prevFailed>>

\* scan_food without an uploaded image answers 400 before any call
ScanFoodNoImage ==
  /\ pc = "idle"
  /\ site' = "scan_food"
  /\ pc' = "responded"
  /\ response' = Response(400, "No image uploaded", NoOutcome, FALSE, <<>>, <<>>)
  /\ reply' = <<>>
  /\ outcome' = NoOutcome
  /\ UNCHANGED <<listing, models_to_try, idx, last_error, attempted, inflight,
                 lastResp, abortAt, parsedAt, prevFailed>>

\* the listing call ends and get_supported_models computes its result
Discover ==
  /\ pc = "discover"
  /\ \E r \in ListingResponses :
       /\ listing' = r
       /\ models_to_try' = get_supported_models(r)
  /\ pc' = "discovered"
  /\ UNCHANGED <<site, idx, last_error, attempted, inflight, lastResp, abortAt,
                 parsedAt, outcome, reply, response, prevFailed>>

\* get_supported_models has returned: last_error is set and the loop begins
EnterLoop ==
  /\ pc = "discovered"
  /\ listing' = NoListing
  /\ last_error' = InitialError
  /\ idx' = 1
  /\ pc' = "loop"
  /\ UNCHANGED <<site, models_to_try, attempted, inflight, lastResp, abortAt,
                 parsedAt, outcome, reply, response, prevFailed>>

\* the loop has a next model
\* (variant: the next call does not wait for the one in flight)
HasNext_WhileInFlight == pc \in {"loop", "inflight"} /\ idx <= Len(models_to_try)

HasNext == pc = "loop" /\ idx <= Len(models_to_try)

\* requests.post for models_to_try[idx] is sent
Issue ==
  /\ HasNext
  /\ inflight' = inflight \cup {idx}
  /\ attempted' = Append(attempted, models_to_try[idx])
  /\ pc' = "inflight"
  /\ UNCHANGED <<site, listing, models_to_try, idx, last_error, lastResp,
                 abortAt, parsedAt, outcome, reply, response, prevFailed>>

\* the response is returned to the caller
\* (variant: every status but 400 and 403 taken for a success)
IsSuccess_Not4xx(r) == r.status \notin {400, 403}

IsSuccess(r) == r.status = 200

\* the loop is left after this response that did not raise
\* (variant: every status but 200 leaves the loop)
Breaks_AnyError(r) == r.status # 200

Breaks(r) == r.status \in AbortStatuses

\* the call answers (or raises) and the rest of the iteration runs
Receive ==
  /\ pc = "inflight"
  /\ \E r \in InferenceResponses :
       /\ lastResp' = r
       /\ abortAt' = IF abortAt = 0 /\ r.status \in {400, 403} THEN idx ELSE abortAt
       /\ parsedAt' = IF parsedAt = 0 /\ r.status = 200 /\ r.jsonok THEN idx
                      ELSE parsedAt
       /\ IF AttemptRaises(r)
            THEN /\ last_error' = ExceptionError(AttemptException(r))
                 /\ idx' = idx + 1
                 /\ pc' = "loop"
                 /\ outcome' = outcome
          ELSE IF IsSuccess(r)
            THEN /\ outcome' = Success(r.body, idx)
                 /\ pc' = "returned"
                 /\ UNCHANGED <<last_error, idx>>
          ELSE /\ last_error' = ApiError(models_to_try[idx], r)
               /\ outcome' = outcome
               /\ IF Breaks(r)
                    THEN pc' = "raise" /\ idx' = idx
                    ELSE pc' = "loop" /\ idx' = idx + 1
  /\ inflight' = inflight \ {idx}
  /\ UNCHANGED <<site, listing, models_to_try, attempted, reply, response, prevFailed>>

\* the loop is over without a return: the final raise
Raise ==
  /\ pc = "raise" \/ (pc = "loop" /\ ~HasNext)
  /\ outcome' = Failure(last_error)
  /\ pc' = "returned"
  /\ UNCHANGED <<site, listing, models_to_try, idx, last_error, attempted,
                 inflight, lastResp, abortAt, parsedAt, reply, response, prevFailed>>

\* the handler of the route s after its call of call_gemini
Handle(s, data, text) ==
  IF s = "scan_food" THEN scan_food_response(data, text)
  ELSE IF s = "diet_plan" THEN diet_plan_response(data, text)
  ELSE chat_response(data, text)

\* call_gemini returns or raises into the handler: its locals are gone
Return ==
  /\ pc = "returned"
  /\ pc' = "handling"
  /\ models_to_try' = <<>>
  /\ idx' = 0
  /\ last_error' = NoError
  /\ attempted' = <<>>
  /\ lastResp' = NoResp
  /\ abortAt' = 0
  /\ parsedAt' = 0
  /\ UNCHANGED <<site, listing, inflight, outcome, reply, response, prevFailed>>

\* the handler goes on with what call_gemini returned or raised, up to its
\* own return
Respond ==
  /\ pc = "handling"
  /\ \E text \in RepliesOf(outcome) :
       /\ reply' = text
       /\ response' = Handle(site, outcome, text)
  /\ pc' = "responded"
  /\ UNCHANGED <<site, listing, models_to_try, idx, last_error, attempted,
                 inflight, lastResp, abortAt, parsedAt, outcome, prevFailed>>

\* the response is written; the process serves the next request
Finish ==
  /\ pc = "responded"
  /\ pc' = "idle"
  /\ prevFailed' = (prevFailed \/ outcome.k = "failure")
  /\ site' = "none"
  /\ outcome' = NoOutcome
  /\ reply' = <<>>
  /\ response' = NoResponse
  /\ UNCHANGED <<listing, models_to_try, idx, last_error, attempted, inflight,
                 lastResp, abortAt, parsedAt>>

Next ==
  \/ StartRequest
  \/ ScanFoodNoImage
  \/ Discover
  \/ EnterLoop
  \/ Issue
  \/ Receive
  \/ Raise
  \/ Return
  \/ Respond
  \/ Finish

Spec == Init /\ [][Next]_vars

----------------------------------------------------------------------------
(* Properties of call_gemini *)

\* call_gemini is running or has just ended, its locals still in place
InGateway == pc \in {"loop", "inflight", "raise", "returned"}

\* C1: once a candidate has answered with status 400 or 403, whatever its
\* body and content type, no later candidate is called and the invocation
\* does not succeed.
C1_AbortOn400Or403 ==
  abortAt # 0 => (Len(attempted) = abortAt /\ outcome.k # "success")

\* C2: the first candidate that answers 200 with a decodable body ends the
\* invocation: nothing is called or in flight after it, what is returned is
\* that body; and a success is always the decoded body of the 200 answer of
\* the candidate called last.
C2_FirstParsed200Returns ==
  /\ parsedAt # 0 =>
       /\ pc = "returned"
       /\ Len(attempted) = parsedAt
       /\ inflight = {}
       /\ outcome.k = "success"
       /\ outcome.from = parsedAt
       /\ outcome.body = lastResp.body
  /\ (InGateway /\ outcome.k = "success") =>
       /\ parsedAt = Len(attempted)
       /\ parsedAt # 0
       /\ lastResp.status = 200
       /\ lastResp.jsonok
       /\ outcome.body \in SuccessBodies

C2_Witness ==
  /\ pc = "returned"
  /\ outcome.k = "success"
  /\ parsedAt = 3
  /\ last_error.k = "api"

\* a failure that C3 calls transient: a transport exception, a 200 whose
\* body is no JSON, or a status that is neither 200 nor 400 nor 403
TransientFailure(r) ==
  \/ r.k \in {"timeout", "connerr"}
  \/ r.k = "http" /\ r.status = 200 /\ ~r.jsonok
  \/ r.k = "http" /\ r.status \notin {200, 400, 403}

\* C3, the states: the models called are the candidate list up to the
\* position of the loop; after a transient failure the loop is never left by
\* a break, the invocation has ended only if every candidate was called, and
\* the loop stands at the next candidate.
C3_State ==
  InGateway =>
    /\ Len(attempted) <= Len(models_to_try)
    /\ attempted = SubSeq(models_to_try, 1, Len(attempted))
    /\ TransientFailure(lastResp) =>
         /\ pc # "raise"
         /\ pc = "returned" =>
              /\ outcome.k = "failure"
              /\ Len(attempted) = Len(models_to_try)
         /\ pc = "loop" => idx = Len(attempted) + 1

\* C3, the steps: at the loop head after a transient failure, with a
\* candidate left, the only step is the call of the next candidate.
C3_Step ==
  (pc = "loop" /\ TransientFailure(lastResp) /\ Len(attempted) < Len(models_to_try)) =>
    /\ pc' = "inflight"
    /\ attempted' = Append(attempted, models_to_try[Len(attempted) + 1])

\* C3: candidates are attempted in list order, and a transient failure never
\* ends the invocation: the next candidate in the list is attempted.
C3_TransientFailureContinues == [](C3_State) /\ [][C3_Step]_vars

C3_Witness ==
  /\ pc = "returned"
  /\ outcome.k = "success"
  /\ Len(models_to_try) = 3
  /\ Len(attempted) = 3
  /\ last_error = ApiError(models_to_try[2], InferenceResp("http", 500, "other", FALSE, "none"))

\* the model identifiers that can be read from the failure raised
ModelsCarried(o) == IF o.final.k = "api" THEN <<o.final.model>> ELSE <<>>

\* the error of one attempt, as the candidate's response determines it
CandidateError(model, r) ==
  IF r.k = "timeout" THEN LastError("exc", 0, <<>>, "ReadTimeout")
  ELSE IF r.k = "connerr" THEN LastError("exc", 0, <<>>, "ConnectionError")
  ELSE IF ~r.jsonok /\ (r.status = 200 \/ r.ctype = "application/json")
    THEN LastError("exc", 0, <<>>, "JSONDecodeError")
  ELSE LastError("api", r.status, model,
                 IF r.ctype = "application/json" THEN "r.json()" ELSE "r.text")

\* the error a failure is expected to carry
ExpectedFinal ==
  IF attempted = <<>> THEN InitialError
  ELSE CandidateError(attempted[Len(attempted)], lastResp)

----------------------------------------------------------------------------
(* Properties of get_supported_models *)

\* a listed model passes both checks of the filter
Excluded == {tts, embed, aqa}
Qualifies(m) ==
  /\ "generateContent" \in m.methods
  /\ \A marker \in Excluded : ~Contains(Lower(m.name), marker)

\* the listing answered 200 with no model that qualifies: no `models`
\* entry, an empty array, or only models that the filter excludes
NothingQualifies(r) ==
  /\ r.k = "http"
  /\ r.status = 200
  /\ \/ r.body = "nomodels"
     \/ /\ r.body = "models"
        /\ \A i \in 1..Len(r.models) : r.models[i].hasName /\ ~Qualifies(r.models[i])

\* C5: the result is never empty, and a 200 listing in which nothing
\* qualifies gives the static fallback list.
C5_NeverEmpty ==
  pc = "discovered" =>
    /\ models_to_try # <<>>
    /\ NothingQualifies(listing) => models_to_try = AVAILABLE_MODELS

\* the listing call failed: it raised, answered another status than 200, or
\* its body is no JSON or lacks an expected field (it is no object, has no
\* `models`, or has an entry without a name)
ListingFailed(r) ==
  \/ r.k \in {"timeout", "connerr"}
  \/ r.k = "http" /\ r.status # 200
  \/ /\ r.k = "http"
     /\ r.status = 200
     /\ \/ r.body \in {"notjson", "nonobject", "nomodels"}
        \/ /\ r.body = "models"
           /\ \E i \in 1..Len(r.models) : ~r.models[i].hasName

\* C6: every failure of the listing call gives the static fallback list.
C6_FailureGivesFallback ==
  (pc = "discovered" /\ ListingFailed(listing)) => models_to_try = AVAILABLE_MODELS

\* the listing is a 200 answer whose `models` array holds named models
WellFormed(r) ==
  /\ r.k = "http"
  /\ r.status = 200
  /\ r.body = "models"
  /\ \A i \in 1..Len(r.models) : r.models[i].hasName

QualifyingAt(r) == {i \in 1..Len(r.models) : Qualifies(r.models[i])}

\* res lists, in the order of the listing, the models at the positions P
ListsInOrder(res, r, P) ==
  /\ Len(res) = Cardinality(P)
  /\ \E f \in [1..Len(res) -> P] :
       /\ \A i, j \in 1..Len(res) : i < j => f[i] < f[j]
       /\ \A i \in 1..Len(res) : res[i] = LastSegment(r.models[f[i]].name)

\* C7: for a 200 listing with at least one qualifying model the result is
\* exactly the qualifying models (by the last segment of their names), in
\* the provider's order.
C7_ExactlyTheQualifying ==
  (pc = "discovered" /\ WellFormed(listing) /\ QualifyingAt(listing) # {}) =>
    ListsInOrder(models_to_try, listing, QualifyingAt(listing))

C7_Witness ==
  /\ pc = "discovered"
  /\ WellFormed(listing)
  /\ Len(listing.models) = 2
  /\ Cardinality(QualifyingAt(listing)) = 1
  /\ listing.models[1].name = <<"m", "/", "T", "T", "S">>
  /\ listing.models[1].methods = GenMethods
  /\ models_to_try = << <<"g", "4">> >>

----------------------------------------------------------------------------
(* Properties of the loop's calls *)

\* C8: the calls of one invocation are sequential: at most one is in
\* flight, the call of a position is sent when every earlier call has ended,
\* each position is called at most once, and at most N calls are made.
C8_StrictlySequential ==
  /\ Cardinality(inflight) <= 1
  /\ pc = "inflight" <=> inflight # {}
  /\ InGateway =>
       /\ Len(attempted) <= Len(models_to_try)
       /\ pc = "inflight" => (inflight = {idx} /\ Len(attempted) = idx)
       /\ pc = "loop" => Len(attempted) = idx - 1
       /\ pc \in {"raise", "returned"} => Len(attempted) \in {idx - 1, idx}

C8_Witness ==
  /\ pc = "inflight"
  /\ inflight = {3}
  /\ Len(attempted) = 3
  /\ Len(models_to_try) = 6

----------------------------------------------------------------------------
(* Properties of the handlers *)

\* the text in front of str(e) in the except clause of each handler
ExceptText(s) ==
  IF s = "scan_food" THEN "Server Error: "
  ELSE IF s = "diet_plan" THEN "AI Plan failed: "
  ELSE "Bella Error: "

\* the state call_gemini and get_supported_models leave behind
GatewayAtRest ==
  /\ listing = NoListing
  /\ models_to_try = <<>>
  /\ idx = 0
  /\ last_error = NoError
  /\ attempted = <<>>
  /\ inflight = {}
  /\ lastResp = NoResp

\* C9: when call_gemini fails, each handler answers 500 with its error text
\* around the message of the failure, which holds the final error; the
\* failure leaves nothing behind in the gateway, and a request that follows
\* a failed one starts from the state the first one started from.
C9_FailureGives500 ==
  /\ (pc = "responded" /\ outcome.k = "failure") =>
       /\ response.status = 500
       /\ response.error = ExceptText(site)
       /\ response.cause = outcome
       /\ response.cause.head = "All AI attempts failed. Final error: "
       /\ response.cause.final.k \in {"text", "api", "exc"}
  /\ (pc = "handling" /\ outcome.k = "failure") => ENABLED Respond
  /\ pc \in {"handling", "responded", "idle"} => GatewayAtRest
  /\ pc = "idle" => ENABLED StartRequest

C9_Witness ==
  /\ prevFailed
  /\ pc = "responded"
  /\ site = "chat"
  /\ outcome.k = "failure"
  /\ response.status = 500
  /\ response.cause.final.k = "api"
  /\ response.cause.final.status = 403

\* the handler has read a reply text from which it extracts JSON
Extracting ==
  /\ pc = "responded"
  /\ site \in {"scan_food", "diet_plan"}
  /\ outcome.k = "success"
  /\ outcome.body = "text"

NoJsonText == "AI response did not contain JSON"

\* C10: at scan_food and diet_plan a reply without a {...} span gives the
\* no-JSON error with the raw text, and a reply whose span does not parse
\* gives another error, with the raw text too.
C10_ExtractionErrorsCarryRaw ==
  Extracting =>
    /\ ~HasMatch(clean_text(reply)) =>
         /\ response.status = 500
         /\ response.error = NoJsonText
         /\ response.hasRaw
         /\ response.raw = reply
    /\ (HasMatch(clean_text(reply)) /\ ~JsonLoadsOk(MatchGroup(clean_text(reply)))) =>
         /\ response.status = 500
         /\ response.error # NoJsonText
         /\ response.error # ExceptText(site)
         /\ response.hasRaw
         /\ response.raw = reply

\* the body that call_gemini returned has no `candidates` or an empty one
WithoutCandidates ==
  /\ outcome.k = "success"
  /\ outcome.body \in {"nocandidates", "emptycandidates"}

\* the error text of each handler for such a body
NoResultText(s) ==
  IF s = "scan_food" THEN "No results from AI. Safety filters might be active."
  ELSE IF s = "diet_plan" THEN "AI could not generate a plan."
  ELSE "Bella is unable to respond right now."

\* C11: a 200 answer whose body has no `candidates`, or an empty one, ends
\* the request with a 500 error response at each of the three handlers: the
\* handler always answers, with its error text, and with no parsed object,
\* reply or raw text in the response.
C11_NoCandidatesGives500 ==
  /\ (pc = "handling" /\ WithoutCandidates) => ENABLED Respond
  /\ (pc = "responded" /\ WithoutCandidates) =>
       /\ site \in Sites
       /\ response.status = 500
       /\ response.error = NoResultText(site)
       /\ response.value = <<>>
       /\ ~response.hasRaw

C11_Witness ==
  /\ pc = "responded"
  /\ site = "chat"
  /\ outcome.k = "success"
  /\ outcome.body = "emptycandidates"
  /\ outcome.from = 2
  /\ response.status = 500

====
